---- MODULE Spec2Model ----
(***************************************************************************)
(* Model of real-time-stocks-go (src/stocks.go and its HTTP variant        *)
(* src/unnamed/part_000): the bootstrap sequence of main, the response     *)
(* awaiter handleResponse, and the per-stock ticker loops.                 *)
(*                                                                         *)
(* Prices are integers in hundredths of a price unit, percentages in       *)
(* hundredths of a percent.  Of a stream message the fields price, delta   *)
(* and perc are carried; time and vol are not.  Go channels made with make(chan T) are        *)
(* unbuffered: a sender blocks until a receiver takes its value, so every  *)
(* channel is modelled by the queue of goroutines blocked in a send on it. *)
(***************************************************************************)
EXTENDS Integers, Sequences, FiniteSets, TLC

\* ------------------------------------------------------------------ bounds
\* Number of ticks each RunCycle loop is followed for.
MaxTicks == 2

\* ------------------------------------------------------- program constants
NumSteps == 7
VolCeiling == 1000

CHAT_CHANNEL == "stock-chat"
CHANNEL_GROUP == "stockblast"
HISTORY_CHANNEL == "MSFT"
GRANT_TTL == 1

\* ------------------------------------------------------------ configuration
\* stocks.json as decoded by LoadConfig: the list of stocks, in file order.
StockNames == <<"A", "B">>

Stocks == {StockNames[i] : i \in 1..Len(StockNames)}

\* The values LoadConfig may decode: a list with both stocks, or an empty
\* list (CurrentPrice is absent from the file and decodes to 0).
StockConfigs ==
  { [n \in Stocks |->
       [InitialPrice |-> 100, CurrentPrice |-> 0, MinTrade |-> 1,
        MaxTrade |-> IF n = "A" THEN ma ELSE mb, Volatility |-> 2,
        MaxDelta |-> 200]] : ma \in {2}, mb \in {1, 2} }
  \cup { [n \in {} |-> 0] }

\* The configured stocks in list order.
StockList(cfg) == SelectSeq(StockNames, LAMBDA n : n \in DOMAIN cfg)

\* strings.Join(names, ",")
RECURSIVE JoinNames(_)
JoinNames(q) ==
  IF q = <<>> THEN ""
  ELSE IF Len(q) = 1 THEN q[1]
  ELSE q[1] \o "," \o JoinNames(Tail(q))

\* auths.json: the publishing key, and the management key derived from it.
AuthKey == "auth"

bootstrapAuth == "auth-bootstrap"


\* ------------------------------------------------------------ request ids
BootIds == {<<"boot", k>> : k \in 1..NumSteps}

TickIds == {<<n, t>> : n \in Stocks, t \in 1..MaxTicks}

ReqIds == BootIds \cup TickIds

NoReq == <<"none", 0>>

VARIABLES
  stocks,    \* the global stocks list
  mainpc,    \* position of main: "issue", "wait", "RunStocks", "blocked"
  step,      \* bootstrap step main is at, 1..NumSteps
  idx,       \* number of stocks RunStocks has ranged over
  reqLog,    \* requests handed to the messaging client by main, in order
  prod,      \* per request: state of the goroutine doing the messaging call
  sendq,     \* per channel: goroutines blocked in a send, oldest first
  closed,    \* channels that have been closed
  aw,        \* per request: state of its handleResponse goroutine
  events,    \* per request: select cases its handleResponse has taken
  sent,      \* per request: values its handleResponse sent on finishedChannel
  st,        \* per stock: the private copy RunCycle works on
  cyc,       \* per stock: position of RunCycle
  iter,      \* per stock: RunCycle's counter i
  act,       \* per tick: position of that UpdateValuesAndPublish activation
  msg,       \* per tick: the StreamMessage its Publish call is sending
  crashed,   \* a goroutine panicked: the process is gone
  unacked    \* history: no bootstrap step so far printed a success

vars == <<stocks, mainpc, step, idx, reqLog, prod, sendq, closed, aw, events,
          sent, st, cyc, iter, act, msg, crashed, unacked>>

\* stockNames as LoadConfig computes it from the list.
stockNames == JoinNames(StockList(stocks))

\* ------------------------------------------------------------- the plan
\* Variant of BootstrapPlan: the grant on the history channel passes true
\* for write as well (the arguments of the chat grant repeated).
BootstrapPlanHistoryWritable ==
  << [op |-> "ChannelGroupRemoveGroup", target |-> CHANNEL_GROUP,
      read |-> FALSE, write |-> FALSE, manage |-> FALSE, auth |-> "-",
      ttl |-> 0],
     [op |-> "ChannelGroupAddChannel", target |-> CHANNEL_GROUP,
      read |-> FALSE, write |-> FALSE, manage |-> FALSE, auth |-> "-",
      ttl |-> 0],
     [op |-> "GrantChannelGroup", target |-> CHANNEL_GROUP,
      read |-> FALSE, write |-> FALSE, manage |-> TRUE, auth |-> bootstrapAuth,
      ttl |-> GRANT_TTL],
     [op |-> "GrantChannelGroup", target |-> CHANNEL_GROUP,
      read |-> TRUE, write |-> FALSE, manage |-> FALSE, auth |-> "",
      ttl |-> GRANT_TTL],
     [op |-> "GrantSubscribe", target |-> CHAT_CHANNEL,
      read |-> TRUE, write |-> TRUE, manage |-> FALSE, auth |-> "",
      ttl |-> GRANT_TTL],
     [op |-> "GrantSubscribe", target |-> HISTORY_CHANNEL,
      read |-> TRUE, write |-> TRUE, manage |-> FALSE, auth |-> "",
      ttl |-> GRANT_TTL],
     [op |-> "GrantSubscribe", target |-> stockNames,
      read |-> FALSE, write |-> TRUE, manage |-> FALSE, auth |-> AuthKey,
      ttl |-> GRANT_TTL] >>

\* The seven calls of SetUpChannelGroup and GrantPermissions, in program
\* order (ttl 0, auth "-": the call takes no such argument).
BootstrapPlan ==
  << [op |-> "ChannelGroupRemoveGroup", target |-> CHANNEL_GROUP,
      read |-> FALSE, write |-> FALSE, manage |-> FALSE, auth |-> "-",
      ttl |-> 0],
     [op |-> "ChannelGroupAddChannel", target |-> CHANNEL_GROUP,
      read |-> FALSE, write |-> FALSE, manage |-> FALSE, auth |-> "-",
      ttl |-> 0],
     [op |-> "GrantChannelGroup", target |-> CHANNEL_GROUP,
      read |-> FALSE, write |-> FALSE, manage |-> TRUE, auth |-> bootstrapAuth,
      ttl |-> GRANT_TTL],
     [op |-> "GrantChannelGroup", target |-> CHANNEL_GROUP,
      read |-> TRUE, write |-> FALSE, manage |-> FALSE, auth |-> "",
      ttl |-> GRANT_TTL],
     [op |-> "GrantSubscribe", target |-> CHAT_CHANNEL,
      read |-> TRUE, write |-> TRUE, manage |-> FALSE, auth |-> "",
      ttl |-> GRANT_TTL],
     [op |-> "GrantSubscribe", target |-> HISTORY_CHANNEL,
      read |-> TRUE, write |-> FALSE, manage |-> FALSE, auth |-> "",
      ttl |-> GRANT_TTL],
     [op |-> "GrantSubscribe", target |-> stockNames,
      read |-> FALSE, write |-> TRUE, manage |-> FALSE, auth |-> AuthKey,
      ttl |-> GRANT_TTL] >>

\* The function a bootstrap step belongs to.
FuncOf(k) == IF k <= 2 THEN "SetUpChannelGroup" ELSE "GrantPermissions"

\* ------------------------------------------------------------- channels
\* Variant of PairOf: the ticker makes its channels once, in RunCycle before
\* the loop, and every UpdateValuesAndPublish of the stock uses them.
PairOfPerLoop(r) == IF r[1] = "boot" THEN <<FuncOf(r[2]), 0>> ELSE <<r[1], 0>>

\* The successChannel/errorChannel pair a request is issued with.
\* SetUpChannelGroup and GrantPermissions each make one pair and pass it
\* to every call they issue; UpdateValuesAndPublish makes a pair per call.
PairOf(r) == IF r[1] = "boot" THEN <<FuncOf(r[2]), 0>> ELSE r

\* The done channel a request's handleResponse reports on.
DoneOf(r) == IF r[1] = "boot" THEN <<FuncOf(r[2]), 0>> ELSE r

Pairs == {PairOf(r) : r \in ReqIds}

Chans == {<<p, k>> : p \in Pairs, k \in {"S", "E"}}

SuccessChannel(r) == <<PairOf(r), "S">>

ErrorChannel(r) == <<PairOf(r), "E">>

\* The requests whose handleResponse is given channel pair p.
UsersOf == [p \in Pairs |-> {r \in ReqIds : PairOf(r) = p}]

Idle == [st |-> "none", outcome |-> "none", from |-> NoReq]

\* ------------------------------------------------------- helpers (pure)
\* Go integer division truncates toward zero.
GoDiv(a, b) ==
  IF a >= 0 THEN a \div b ELSE -((-a) \div b)

\* floor(a / b) for b # 0.
FloorDiv(a, b) ==
  IF b > 0 THEN a \div b ELSE (-a) \div (-b)

Abs(x) == IF x < 0 THEN -x ELSE x

\* The values rand.Intn(n) can return: every value of [0, n); it panics
\* for n <= 0 (no value).
Intn(n) == 0..(n - 1)

\* Randn(min, max) = rand.Intn(max-min) + min.
Randn(min, max) == {d + min : d \in Intn(max - min)}

\* Roundn((1 - initial/current) * 100, 2), in hundredths of a percent:
\* floor((1 - initial/current) * 10000 + 0.5), computed in float64.  The
\* values the computation can give: where the exact value of the argument
\* of floor is an integer q, the float64 value is q or just below or above
\* it, and floor gives q - 1 or q; elsewhere floor gives the floor of the
\* exact value.  For a price of zero hundredths the float64 price is 0 or
\* a tiny number of either sign, and the percentage is -Inf or beyond every
\* threshold on either side.
MinusInf == -1000000

PlusInf == 1000000

Percentage(initial, current) ==
  IF current = 0 THEN {MinusInf, PlusInf}
  ELSE LET num == 2 * 10000 * (current - initial) + current
           q == FloorDiv(num, 2 * current)
       IN IF q * (2 * current) = num THEN {q - 1, q} ELSE {q}

\* Variant of NextPrice: the draw is not centered ("- stock.Volatility/2"
\* left out of line 210).
NextPriceUncentered(s, j) ==
  (IF s.CurrentPrice = 0 THEN s.InitialPrice ELSE s.CurrentPrice) + j

\* Lines 204-225 of UpdateValuesAndPublish on stock s with the draw j
\* (rand.Intn(Volatility)) and the percentage p computed at line 213: the
\* price, the message and the stock afterwards.
NextPrice(s, j) ==
  (IF s.CurrentPrice = 0 THEN s.InitialPrice ELSE s.CurrentPrice)
    + (j - GoDiv(s.Volatility, 2))

\* Variant of StreamMessage: the message is built after the reset of lines
\* 223-225, from the price the stock then has.
StreamMessageAfterReset(s, j, p) ==
  LET price == NextPrice(s, j)
      kept == IF Abs(p) > s.MaxDelta THEN s.InitialPrice ELSE price
  IN [price |-> kept,
      delta |-> kept - s.InitialPrice,
      perc  |-> p]

StreamMessage(s, j, p) ==
  LET price == NextPrice(s, j)
  IN [price |-> price,
      delta |-> price - s.InitialPrice,
      perc  |-> p]

\* Variant of AfterTick: the percentage is compared without math.Abs.
AfterTickNoAbs(s, j, p) ==
  LET price == NextPrice(s, j)
  IN IF p > s.MaxDelta
       THEN [s EXCEPT !.CurrentPrice = s.InitialPrice]
       ELSE [s EXCEPT !.CurrentPrice = price]

AfterTick(s, j, p) ==
  LET price == NextPrice(s, j)
  IN IF Abs(p) > s.MaxDelta
       THEN [s EXCEPT !.CurrentPrice = s.InitialPrice]
       ELSE [s EXCEPT !.CurrentPrice = price]

NoMsg == [price |-> 0, delta |-> 0, perc |-> 0]

\* No handleResponse will ever again receive from channel pair p: every
\* call of handleResponse with that pair has left its select.
Abandoned(p) ==
  \A r \in UsersOf[p] : aw[r].st \in {"resolved", "finished"}

\* The requests issued by the function activation that issued r.
Scopes ==
  [r \in ReqIds |->
     IF r[1] = "boot" THEN {q \in BootIds : FuncOf(q[2]) = FuncOf(r[2])}
     ELSE {r}]

ScopeOf(r) == Scopes[r]

\* The function activation that issued a request returns.  Its channels
\* are local variables; a messaging goroutine that has not delivered on a
\* pair no handleResponse will read again stays behind for the life of the
\* process, and nothing of the program can reach it any more.  A goroutine
\* that has yet to send and has a closed channel is not in that case: its
\* send may still panic.
LeftBehind(q) ==
  /\ prod[q] \in {"pending", "blocked"}
  /\ Abandoned(PairOf(q))
  /\ prod[q] = "pending" =>
       /\ SuccessChannel(q) \notin closed
       /\ ErrorChannel(q) \notin closed

Left(r) == {q \in ScopeOf(r) : LeftBehind(q)}

\* "out": terminated, or left behind in this way.
ProdAfterReturn(r) ==
  [q \in ReqIds |->
     IF q \in ScopeOf(r) /\ (prod[q] = "done" \/ LeftBehind(q))
       THEN "out" ELSE prod[q]]

\* handleResponse has sent on finishedChannel and returned.
Finished == [st |-> "finished", outcome |-> "none", from |-> NoReq]

SendqAfterReturn(r) ==
  [c \in Chans |->
     IF sendq[c] = <<>> THEN <<>>
     ELSE SelectSeq(sendq[c], LAMBDA q : q \notin Left(r))]

\* ------------------------------------------------------------------ Init
Init ==
  /\ stocks \in StockConfigs
  /\ mainpc = "issue"
  /\ step = 1
  /\ idx = 0
  /\ reqLog = <<>>
  /\ prod = [r \in ReqIds |-> "idle"]
  /\ sendq = [c \in Chans |-> <<>>]
  /\ closed = {}
  /\ aw = [r \in ReqIds |-> Idle]
  /\ events = [r \in ReqIds |-> 0]
  /\ sent = [r \in ReqIds |-> 0]
  /\ st = stocks
  /\ cyc = [n \in Stocks |-> "none"]
  /\ iter = [n \in Stocks |-> 0]
  /\ act = [r \in TickIds |-> "idle"]
  /\ msg = [r \in TickIds |-> NoMsg]
  /\ crashed = FALSE
  /\ unacked = TRUE

\* ------------------------------------------ main: SetUpChannelGroup, GrantPermissions
\* go pubnub.<call>(..., successChannel, errorChannel)
\* go handleResponse(successChannel, errorChannel, timeout, done)
BootIssue ==
  /\ ~crashed
  /\ mainpc = "issue"
  /\ prod' = [prod EXCEPT ![<<"boot", step>>] = "pending"]
  /\ aw' = [aw EXCEPT ![<<"boot", step>>] = [Idle EXCEPT !.st = "await"]]
  /\ reqLog' = Append(reqLog, BootstrapPlan[step])
  /\ mainpc' = "wait"
  /\ UNCHANGED <<stocks, step, idx, sendq, closed, events, sent, st, cyc, iter,
                 act, msg, crashed, unacked>>

\* Variant of BootDone: an outcome other than a success ends the bootstrap
\* (handleResponse's outcome checked with log.Fatal).
BootDoneAbortOnFailure ==
  /\ ~crashed
  /\ mainpc = "wait"
  /\ \E r \in BootIds :
       /\ aw[r].st = "resolved"
       /\ aw' = [aw EXCEPT ![r] = [st |-> "finished", outcome |-> "none",
                                    from |-> <<"none", 0>>]]
       /\ sent' = [sent EXCEPT ![r] = @ + 1]
       /\ unacked' = (unacked /\ aw[r].outcome # "success")
       /\ IF aw[r].outcome # "success"
            THEN /\ mainpc' = "aborted"
                 /\ step' = step
            ELSE IF step < NumSteps
              THEN /\ step' = step + 1
                   /\ mainpc' = "issue"
              ELSE /\ step' = step
                   /\ mainpc' = "RunStocks"
  /\ UNCHANGED <<stocks, idx, reqLog, prod, sendq, closed, events, st, cyc,
                 iter, act, msg, crashed>>

\* Variant of BootDone: main goes on to the next statement without
\* receiving from done (the "<-done" line left out).
BootDoneNoWait ==
  /\ ~crashed
  /\ mainpc = "wait"
  /\ IF step < NumSteps
       THEN /\ step' = step + 1
            /\ mainpc' = "issue"
       ELSE /\ step' = step
            /\ mainpc' = "RunStocks"
  /\ UNCHANGED <<stocks, idx, reqLog, prod, sendq, closed, aw, events, sent,
                 st, cyc, iter, act, msg, crashed, unacked>>

\* <-done: main takes the value some handleResponse is sending on the done
\* channel of the function main is in, and goes on to the next statement.
BootDone ==
  /\ ~crashed
  /\ mainpc = "wait"
  /\ \E r \in BootIds :
       /\ aw[r].st = "resolved"
       /\ DoneOf(r) = <<FuncOf(step), 0>>
       /\ aw' = [aw EXCEPT ![r] = Finished]
       /\ sent' = [sent EXCEPT ![r] = @ + 1]
       /\ unacked' = (unacked /\ aw[r].outcome # "success")
  /\ IF step < NumSteps
       THEN /\ step' = step + 1
            /\ mainpc' = "issue"
       ELSE /\ step' = step
            /\ mainpc' = "RunStocks"
  /\ IF step = NumSteps \/ FuncOf(step + 1) # FuncOf(step)
       THEN /\ prod' = ProdAfterReturn(<<"boot", step>>)
            /\ sendq' = SendqAfterReturn(<<"boot", step>>)
       ELSE UNCHANGED <<prod, sendq>>
  /\ UNCHANGED <<stocks, idx, reqLog, closed, events, st, cyc, iter, act, msg,
                 crashed>>

\* --------------------------------------------------- the messaging client
\* The goroutine running a messaging call answers by sending one value on
\* the success or on the error channel it was given: it blocks in that send
\* until a receiver takes the value.  It may also never answer.
\* A send on a closed channel panics.
Respond(r, k) ==
  /\ ~crashed
  /\ prod[r] = "pending"
  /\ IF <<PairOf(r), k>> \in closed
       THEN /\ crashed' = TRUE
            /\ UNCHANGED <<prod, sendq>>
       ELSE /\ prod' = [prod EXCEPT ![r] = "blocked"]
            /\ sendq' = [sendq EXCEPT ![<<PairOf(r), k>>] = Append(@, r)]
            /\ UNCHANGED crashed
  /\ UNCHANGED <<stocks, mainpc, step, idx, reqLog, closed, aw, events, sent,
                 st, cyc, iter, act, msg, unacked>>

\* Variant of Receive: a case that received a value ends in a plain
\* "break", which leaves the select but not the loop labelled await, so the
\* select is entered again.
ReceiveBreakSelectOnly(r, c, what) ==
  /\ ~crashed
  /\ aw[r].st = "await"
  /\ \/ /\ sendq[c] # <<>>
        /\ aw' = [aw EXCEPT ![r] = [st |-> "await", outcome |-> what,
                                     from |-> Head(sendq[c])]]
        /\ prod' = [prod EXCEPT ![Head(sendq[c])] = "done"]
        /\ sendq' = [sendq EXCEPT ![c] = Tail(@)]
     \/ /\ sendq[c] = <<>>
        /\ c \in closed
        /\ aw' = [aw EXCEPT ![r] = [st |-> "resolved", outcome |-> "closed",
                                     from |-> NoReq]]
        /\ UNCHANGED <<prod, sendq>>
  /\ events' = [events EXCEPT ![r] = @ + 1]
  /\ UNCHANGED <<stocks, mainpc, step, idx, reqLog, closed, sent, st, cyc,
                 iter, act, msg, crashed, unacked>>

\* ---------------------------------------------------------- handleResponse
\* One case of the select taken by the handleResponse of request r on
\* channel c: the oldest blocked sender is released, or the channel is
\* closed (ok = false).  Every case ends in break await.
Receive(r, c, what) ==
  /\ ~crashed
  /\ aw[r].st = "await"
  /\ \/ /\ sendq[c] # <<>>
        /\ aw' = [aw EXCEPT ![r] = [st |-> "resolved", outcome |-> what,
                                     from |-> Head(sendq[c])]]
        /\ prod' = [prod EXCEPT ![Head(sendq[c])] = "done"]
        /\ sendq' = [sendq EXCEPT ![c] = Tail(@)]
     \/ /\ sendq[c] = <<>>
        /\ c \in closed
        /\ aw' = [aw EXCEPT ![r] = [st |-> "resolved", outcome |-> "closed",
                                     from |-> NoReq]]
        /\ UNCHANGED <<prod, sendq>>
  /\ events' = [events EXCEPT ![r] = @ + 1]
  /\ UNCHANGED <<stocks, mainpc, step, idx, reqLog, closed, sent, st, cyc,
                 iter, act, msg, crashed, unacked>>

\* case success, ok := <-successChannel
HandleSuccess(r) == Receive(r, SuccessChannel(r), "success")

\* case failure, ok := <-errorChannel
HandleFailure(r) == Receive(r, ErrorChannel(r), "failure")

\* case <-time.After(time.Second * 3)
\* The timer is made when the select is entered, so this case is taken only
\* when neither channel had a sender or was closed.
HandleTimeout(r) ==
  /\ ~crashed
  /\ aw[r].st = "await"
  /\ sendq[SuccessChannel(r)] = <<>> /\ SuccessChannel(r) \notin closed
  /\ sendq[ErrorChannel(r)] = <<>> /\ ErrorChannel(r) \notin closed
  /\ aw' = [aw EXCEPT ![r] = [st |-> "resolved", outcome |-> "timeout",
                               from |-> NoReq]]
  /\ events' = [events EXCEPT ![r] = @ + 1]
  /\ UNCHANGED <<stocks, mainpc, step, idx, reqLog, prod, sendq, closed, sent,
                 st, cyc, iter, act, msg, crashed, unacked>>

\* ---------------------------------------------------------------- RunStocks
\* Variant of RunStocksSpawn: the loops are started concurrently with the
\* bootstrap ("go RunStocks()" placed before it in main).
RunStocksSpawnEarly ==
  /\ ~crashed
  /\ idx < Len(StockList(stocks))
  /\ idx' = idx + 1
  /\ st' = [st EXCEPT ![StockList(stocks)[idx + 1]] =
                     stocks[StockList(stocks)[idx + 1]]]
  /\ cyc' = [cyc EXCEPT ![StockList(stocks)[idx + 1]] = "spawn"]
  /\ UNCHANGED <<stocks, mainpc, step, reqLog, prod, sendq, closed, aw, events,
                 sent, iter, act, msg, crashed, unacked>>

\* for _, stock := range stocks { go func(st Stock) { ...; st.RunCycle() }(stock) }
RunStocksSpawn ==
  /\ ~crashed
  /\ mainpc = "RunStocks"
  /\ idx < Len(StockList(stocks))
  /\ idx' = idx + 1
  /\ st' = [st EXCEPT ![StockList(stocks)[idx + 1]] =
                     stocks[StockList(stocks)[idx + 1]]]
  /\ cyc' = [cyc EXCEPT ![StockList(stocks)[idx + 1]] = "spawn"]
  /\ UNCHANGED <<stocks, mainpc, step, reqLog, prod, sendq, closed, aw, events,
                 sent, iter, act, msg, crashed, unacked>>

\* Variant of RunStocksBlock: RunStocks returns once the loops are started
\* (no "<-done" at its end).
RunStocksReturn ==
  /\ ~crashed
  /\ mainpc = "RunStocks"
  /\ idx = Len(StockList(stocks))
  /\ mainpc' = "returned"
  /\ UNCHANGED <<stocks, step, idx, reqLog, prod, sendq, closed, aw, events,
                 sent, st, cyc, iter, act, msg, crashed, unacked>>

\* Variant of RunStocksBlock: main starts the loops in the background and
\* goes on to ServeHttp ("go RunStocks()" in main).
RunStocksThenServe ==
  /\ ~crashed
  /\ mainpc = "RunStocks"
  /\ idx = Len(StockList(stocks))
  /\ mainpc' = "ServeHttp"
  /\ UNCHANGED <<stocks, step, idx, reqLog, prod, sendq, closed, aw, events,
                 sent, st, cyc, iter, act, msg, crashed, unacked>>

\* <-done on a channel nothing sends to.
RunStocksBlock ==
  /\ ~crashed
  /\ mainpc = "RunStocks"
  /\ idx = Len(StockList(stocks))
  /\ mainpc' = "blocked"
  /\ UNCHANGED <<stocks, step, idx, reqLog, prod, sendq, closed, aw, events,
                 sent, st, cyc, iter, act, msg, crashed, unacked>>

\* ----------------------------------------------------------------- RunCycle
\* Variant of RunCycleSpawn: the loop starts the next activation without
\* receiving from cycle (the "<-cycle" line left out).
RunCycleSpawnNoWait(n) ==
  /\ ~crashed
  /\ cyc[n] = "spawn"
  /\ iter[n] < MaxTicks
  /\ act' = [act EXCEPT ![<<n, iter[n] + 1>>] = "start"]
  /\ iter' = [iter EXCEPT ![n] = @ + 1]
  /\ UNCHANGED <<stocks, mainpc, step, idx, reqLog, prod, sendq, closed, aw,
                 events, sent, st, cyc, msg, crashed, unacked>>

\* go stock.UpdateValuesAndPublish(pubnub, cycle)
RunCycleSpawn(n) ==
  /\ ~crashed
  /\ cyc[n] = "spawn"
  /\ iter[n] < MaxTicks
  /\ act' = [act EXCEPT ![<<n, iter[n] + 1>>] = "start"]
  /\ cyc' = [cyc EXCEPT ![n] = "wait"]
  /\ UNCHANGED <<stocks, mainpc, step, idx, reqLog, prod, sendq, closed, aw,
                 events, sent, st, iter, msg, crashed, unacked>>

\* ----------------------------------------------------- UpdateValuesAndPublish
\* The blocking statements of UpdateValuesAndPublish in program order, after
\* the two go statements: time.Sleep (line 236), then <-done and the send
\* on cycle (line 238).  After(pos): where the activation is once the
\* statement at pos has completed.
After(pos) ==
  CASE pos = "seeded"    -> "sleep"
    [] pos = "sleep"     -> "waitdone"
    [] pos = "waitdone"  -> "sendcycle"
    [] pos = "sendcycle" -> "exit"

\* Variant of StoreStock: the loops all run on one Stock value (RunStocks
\* starting "go func() { stock.RunCycle() }()" on the loop variable).
StoreStockShared(n, s) == [b \in DOMAIN st |-> s]

\* stock.CurrentPrice = ...: the activation writes to the Stock value its
\* RunCycle was started on, the copy made for the stock's goroutine.
StoreStock(n, s) == [st EXCEPT ![n] = s]

\* rand.Seed(int64(time.Now().Nanosecond())): the activation reseeds the
\* random source of package rand, which all goroutines share.
Reseed(r) ==
  /\ ~crashed
  /\ act[r] = "start"
  /\ act' = [act EXCEPT ![r] = "seeded"]
  /\ UNCHANGED <<stocks, mainpc, step, idx, reqLog, prod, sendq, closed, aw,
                 events, sent, st, cyc, iter, msg, crashed, unacked>>

\* Lines 210-236 up to the call of time.Sleep, with the draws from the
\* shared source.  rand.Intn panics when its argument is not positive, and
\* a panic in any goroutine ends the process.
UpdateValuesAndPublish(r) ==
  /\ ~crashed
  /\ act[r] = "seeded"
  /\ LET s == st[r[1]]
     IN IF Intn(s.Volatility) = {} \/ Randn(s.Volatility, VolCeiling) = {}
          THEN /\ crashed' = TRUE
               /\ UNCHANGED <<st, msg, prod, aw, act>>
          ELSE /\ \E j \in Intn(s.Volatility) :
                  \E p \in Percentage(s.InitialPrice, NextPrice(s, j)) :
                    /\ msg' = [msg EXCEPT ![r] = StreamMessage(s, j, p)]
                    /\ st' = StoreStock(r[1], AfterTick(s, j, p))
               /\ prod' = [prod EXCEPT ![r] = "pending"]
               /\ aw' = [aw EXCEPT ![r] = [Idle EXCEPT !.st = "await"]]
               /\ IF Randn(s.MinTrade, s.MaxTrade) = {}
                    THEN /\ crashed' = TRUE
                         /\ UNCHANGED act
                    ELSE /\ crashed' = FALSE
                         /\ act' = [act EXCEPT ![r] = After("seeded")]
  /\ UNCHANGED <<stocks, mainpc, step, idx, reqLog, sendq, closed, events,
                 sent, cyc, iter, unacked>>

\* time.Sleep returns.
Wake(r) ==
  /\ ~crashed
  /\ act[r] = "sleep"
  /\ act' = [act EXCEPT ![r] = After("sleep")]
  /\ UNCHANGED <<stocks, mainpc, step, idx, reqLog, prod, sendq, closed, aw,
                 events, sent, st, cyc, iter, msg, crashed, unacked>>

\* <-done of "cycle <- <-done": takes the value handleResponse is sending.
TickDone(r) ==
  /\ ~crashed
  /\ act[r] = "waitdone"
  /\ aw[r].st = "resolved"
  /\ aw' = [aw EXCEPT ![r] = Finished]
  /\ sent' = [sent EXCEPT ![r] = @ + 1]
  /\ act' = [act EXCEPT ![r] = After("waitdone")]
  /\ UNCHANGED <<stocks, mainpc, step, idx, reqLog, prod, sendq, closed, events,
                 st, cyc, iter, msg, crashed, unacked>>

\* "cycle <- ..." meets RunCycle's <-cycle; RunCycle prints and counts.
TickCycle(r) ==
  /\ ~crashed
  /\ act[r] = "sendcycle"
  /\ cyc[r[1]] = "wait"
  /\ act' = [act EXCEPT ![r] = After("sendcycle")]
  /\ cyc' = [cyc EXCEPT ![r[1]] = "spawn"]
  /\ iter' = [iter EXCEPT ![r[1]] = @ + 1]
  /\ prod' = ProdAfterReturn(r)
  /\ sendq' = SendqAfterReturn(r)
  /\ msg' = [msg EXCEPT ![r] = NoMsg]
  /\ UNCHANGED <<stocks, mainpc, step, idx, reqLog, closed, aw, events, sent,
                 st, crashed, unacked>>

\* ------------------------------------------------------------------- Next
Next ==
  \/ BootIssue
  \/ BootDone
  \/ \E r \in ReqIds : \E k \in {"S", "E"} : Respond(r, k)
  \/ \E r \in ReqIds : HandleSuccess(r)
  \/ \E r \in ReqIds : HandleFailure(r)
  \/ \E r \in ReqIds : HandleTimeout(r)
  \/ RunStocksSpawn
  \/ RunStocksBlock
  \/ \E n \in Stocks : RunCycleSpawn(n)
  \/ \E r \in TickIds : Reseed(r)
  \/ \E r \in TickIds : UpdateValuesAndPublish(r)
  \/ \E r \in TickIds : Wake(r)
  \/ \E r \in TickIds : TickDone(r)
  \/ \E r \in TickIds : TickCycle(r)

Spec == Init /\ [][Next]_vars

\* ---------------------------------------------------------------- fairness
\* Every goroutine of the program that can take a step is eventually
\* scheduled, and the timers of time.After and time.Sleep expire.  The
\* messaging client is promised nothing: a call may never be answered.
Select(r) == HandleSuccess(r) \/ HandleFailure(r) \/ HandleTimeout(r)

\* The steps of main, of the handleResponse goroutines, and of the ticker
\* goroutines of one stock.
MainStep == BootIssue \/ BootDone \/ RunStocksSpawn \/ RunStocksBlock

AwaiterStep == \E r \in ReqIds : Select(r)

TickerStep(n) ==
  \/ RunCycleSpawn(n)
  \/ \E t \in 1..MaxTicks :
       \/ Reseed(<<n, t>>)
       \/ UpdateValuesAndPublish(<<n, t>>)
       \/ Wake(<<n, t>>)
       \/ TickDone(<<n, t>>)
       \/ TickCycle(<<n, t>>)

Fairness ==
  /\ WF_vars(MainStep)
  /\ WF_vars(AwaiterStep)
  /\ \A n \in Stocks : WF_vars(TickerStep(n))

FairSpec == Spec /\ Fairness

\* ------------------------------------------------- the bootstrap on its own
\* main from its first request up to the call of RunStocks.
BootNext ==
  \/ BootIssue
  \/ BootDone
  \/ \E r \in BootIds : \E k \in {"S", "E"} : Respond(r, k)
  \/ \E r \in BootIds : HandleSuccess(r)
  \/ \E r \in BootIds : HandleFailure(r)
  \/ \E r \in BootIds : HandleTimeout(r)

BootFairness ==
  /\ WF_vars(BootIssue \/ BootDone)
  /\ WF_vars(\E r \in BootIds : Select(r))

BootFairSpec == Init /\ [][BootNext]_vars /\ BootFairness

\* ------------------------------------------- handleResponse under arrivals
\* main has issued the second request of SetUpChannelGroup and is at its
\* <-done: the handleResponse of step 2 is entering its select.  Both
\* messaging goroutines of the function hold the same channel pair; each has
\* already arrived on one of the two channels, or has not, and the first may
\* have been received by the handleResponse of step 1.  A channel with no
\* sender may have been closed by the messaging client.  The list has both
\* stocks; of the list only the names are used here (request 7).
Arrivals ==
  {<<>>, <<<<"boot", 1>>>>, <<<<"boot", 2>>>>,
   <<<<"boot", 1>>, <<"boot", 2>>>>, <<<<"boot", 2>>, <<"boot", 1>>>>}

Arrived(q) == {q[i] : i \in 1..Len(q)}

InitAwait ==
  /\ stocks \in {cfg \in StockConfigs :
                   /\ DOMAIN cfg = Stocks
                   /\ \A n \in Stocks : cfg[n].MinTrade < cfg[n].MaxTrade}
  /\ mainpc = "wait"
  /\ step = 2
  /\ idx = 0
  /\ reqLog = <<BootstrapPlan[1], BootstrapPlan[2]>>
  /\ \E qs \in Arrivals : \E qe \in Arrivals : \E p1 \in {"pending", "done"} :
       /\ Arrived(qs) \cap Arrived(qe) = {}
       /\ sendq = [c \in Chans |->
                     IF c = SuccessChannel(<<"boot", 2>>) THEN qs
                     ELSE IF c = ErrorChannel(<<"boot", 2>>) THEN qe
                     ELSE <<>>]
       /\ prod = [r \in ReqIds |->
                    IF r \in Arrived(qs) \cup Arrived(qe) THEN "blocked"
                    ELSE IF r = <<"boot", 1>> THEN p1
                    ELSE IF r = <<"boot", 2>> THEN "pending"
                    ELSE "idle"]
       /\ unacked \in (IF prod[<<"boot", 1>>] = "done" THEN BOOLEAN ELSE {TRUE})
       /\ closed \in SUBSET {c \in {SuccessChannel(<<"boot", 2>>),
                                     ErrorChannel(<<"boot", 2>>)} :
                                sendq[c] = <<>>}
  /\ aw = [r \in ReqIds |->
             IF r = <<"boot", 1>> THEN Finished
             ELSE IF r = <<"boot", 2>> THEN [Idle EXCEPT !.st = "await"]
             ELSE Idle]
  /\ events = [r \in ReqIds |-> IF r = <<"boot", 1>> THEN 1 ELSE 0]
  /\ sent = [r \in ReqIds |-> IF r = <<"boot", 1>> THEN 1 ELSE 0]
  /\ st = stocks
  /\ cyc = [n \in Stocks |-> "none"]
  /\ iter = [n \in Stocks |-> 0]
  /\ act = [r \in TickIds |-> "idle"]
  /\ msg = [r \in TickIds |-> NoMsg]
  /\ crashed = FALSE

SpecAwait == InitAwait /\ [][BootNext]_vars

\* ---------------------------------------------- the price of one stock
\* Lines 204-225 of UpdateValuesAndPublish followed on their own, tick after
\* tick of one stock, over a range of parameters (prices in hundredths).
PriceConfigs ==
  { [n \in {"A"} |->
       [InitialPrice |-> ip, CurrentPrice |-> 0, MinTrade |-> 1,
        MaxTrade |-> 2, Volatility |-> vo, MaxDelta |-> md]] :
      ip \in {1, 33, 50, 100}, vo \in {1, 2, 3, 5, VolCeiling},
      md \in {0, 200, 312, 500} }

PriceInit ==
  /\ stocks \in PriceConfigs
  /\ mainpc = "blocked"
  /\ step = NumSteps
  /\ idx = Len(StockList(stocks))
  /\ reqLog = [k \in 1..NumSteps |-> BootstrapPlan[k]]
  /\ prod = [r \in ReqIds |-> IF r \in BootIds THEN "out" ELSE "idle"]
  /\ sendq = [c \in Chans |-> <<>>]
  /\ closed = {}
  /\ aw = [r \in ReqIds |-> IF r \in BootIds THEN Finished ELSE Idle]
  /\ events = [r \in ReqIds |-> IF r \in BootIds THEN 1 ELSE 0]
  /\ sent = [r \in ReqIds |-> IF r \in BootIds THEN 1 ELSE 0]
  /\ st = stocks
  /\ cyc = [n \in Stocks |-> IF n \in DOMAIN stocks THEN "spawn" ELSE "none"]
  /\ iter = [n \in Stocks |-> 0]
  /\ act = [r \in TickIds |-> "idle"]
  /\ msg = [r \in TickIds |-> NoMsg]
  /\ crashed = FALSE
  /\ unacked = FALSE

\* One tick's price update and message; the message is kept.
PriceTick(n) ==
  /\ ~crashed
  /\ cyc[n] = "spawn"
  /\ iter[n] < MaxTicks
  /\ LET s == st[n]
     IN IF Intn(s.Volatility) = {} \/ Randn(s.Volatility, VolCeiling) = {}
          THEN /\ crashed' = TRUE
               /\ UNCHANGED <<st, msg, iter>>
          ELSE /\ \E j \in Intn(s.Volatility) :
                  \E p \in Percentage(s.InitialPrice, NextPrice(s, j)) :
                    /\ msg' = [msg EXCEPT ![<<n, iter[n] + 1>>] =
                                  StreamMessage(s, j, p)]
                    /\ st' = StoreStock(n, AfterTick(s, j, p))
               /\ iter' = [iter EXCEPT ![n] = @ + 1]
               /\ UNCHANGED crashed
  /\ UNCHANGED <<stocks, mainpc, step, idx, reqLog, prod, sendq, closed, aw,
                 events, sent, cyc, act, unacked>>

PriceNext == \E n \in Stocks : PriceTick(n)

PriceSpec == PriceInit /\ [][PriceNext]_vars

\* ================================================================ claims
Boot(k) == <<"boot", k>>

\* The request of r has been handed to the messaging client.
Issued(r) == prod[r] # "idle"

\* The handleResponse of r has sent its value on finishedChannel.
Signalled(r) == aw[r].st = "finished"

\* The seven requests as the bootstrap is described: what is asked, and of
\* which resource.
ExpectedOrder ==
  << <<"ChannelGroupRemoveGroup", CHANNEL_GROUP>>,
     <<"ChannelGroupAddChannel", CHANNEL_GROUP>>,
     <<"GrantChannelGroup", CHANNEL_GROUP, "manage", bootstrapAuth>>,
     <<"GrantChannelGroup", CHANNEL_GROUP, "read", "">>,
     <<"GrantSubscribe", CHAT_CHANNEL, "read+write", "">>,
     <<"GrantSubscribe", HISTORY_CHANNEL, "read", "">>,
     <<"GrantSubscribe", stockNames, "write", AuthKey>> >>

Rights(q) ==
  IF q.manage THEN "manage"
  ELSE IF q.read /\ q.write THEN "read+write"
  ELSE IF q.read THEN "read"
  ELSE IF q.write THEN "write" ELSE "none"

Described(q) ==
  IF q.op \in {"ChannelGroupRemoveGroup", "ChannelGroupAddChannel"}
    THEN <<q.op, q.target>>
    ELSE <<q.op, q.target, Rights(q), q.auth>>

\* C1: the bootstrap issues its seven requests in the fixed order remove
\* group, add channels, grant manage on the group, grant public read on the
\* group, grant public read+write on chat, grant public read on history,
\* grant publisher write on the stock channels; and the request of step k+1
\* is issued only after the handleResponse of step k has signalled on done.
C1_BootstrapOrder ==
  /\ Len(reqLog) <= NumSteps
  /\ \A k \in 1..Len(reqLog) : Described(reqLog[k]) = ExpectedOrder[k]
  /\ \A k \in 1..NumSteps : Issued(Boot(k)) <=> k <= Len(reqLog)
  /\ \A k \in 1..(NumSteps - 1) : Issued(Boot(k + 1)) => Signalled(Boot(k))

\* All seven requests are out, and none of the first six steps ended in a
\* success.
C1_Witness ==
  /\ Len(reqLog) = NumSteps
  /\ mainpc = "wait"
  /\ unacked

\* Some ticker loop has been started, or some publish has been issued.
TickerActivity ==
  \/ \E n \in Stocks : cyc[n] # "none"
  \/ \E r \in TickIds : act[r] # "idle" \/ Issued(r)

\* C2: no ticker loop is started and no publish is issued before all seven
\* bootstrap steps have resolved: each has been issued and its
\* handleResponse has signalled.
C2_BootstrapBeforeTickers ==
  TickerActivity =>
    \A k \in 1..NumSteps : Signalled(Boot(k)) /\ events[Boot(k)] = 1

\* A publish is out while main sits in RunStocks.
C2_Witness ==
  /\ \E r \in TickIds : Issued(r) /\ act[r] = "sleep"
  /\ mainpc = "blocked"

\* C3: for every arrival pattern on the two channels (a sender on the
\* success channel, on the error channel, on both, a closed channel, none),
\* a call of handleResponse takes exactly one case of its select and sends
\* exactly one value on finishedChannel: never a second case, never a
\* second value, no value before a case was taken, and main has gone past
\* a step only with that step's one value sent.
C3_OneEventOneSignal ==
  \A k \in 1..NumSteps :
    /\ events[Boot(k)] <= 1
    /\ sent[Boot(k)] <= events[Boot(k)]
    /\ aw[Boot(k)].st \in {"none", "await"} => events[Boot(k)] = 0
    /\ aw[Boot(k)].st = "resolved" =>
         events[Boot(k)] = 1 /\ sent[Boot(k)] = 0
    /\ aw[Boot(k)].st = "finished" =>
         events[Boot(k)] = 1 /\ sent[Boot(k)] = 1
    /\ (k < step \/ mainpc = "RunStocks") => sent[Boot(k)] = 1

\* The handleResponse of step 2 met a closed channel and sent its value; a
\* later one has taken the success case while a sender waits on the error
\* channel, and has not sent its value yet.
C3_Witness ==
  /\ closed # {}
  /\ sent[Boot(2)] = 1
  /\ \E k \in 3..NumSteps :
       /\ aw[Boot(k)].st = "resolved"
       /\ aw[Boot(k)].outcome = "success"
       /\ events[Boot(k)] = 1
       /\ sendq[ErrorChannel(Boot(k))] # <<>>

\* A goroutine doing a messaging call is blocked in the send of its answer,
\* on a channel pair no handleResponse will receive from again.
Stranded(r) == prod[r] = "blocked" /\ Abandoned(PairOf(r))

\* C4 (as claimed): a signal delivered after the awaiter has returned is
\* ignored without blocking the producer: no goroutine doing a messaging
\* call is ever left blocked in a send that nothing will receive.
C4_ProducerNeverStranded ==
  \A r \in ReqIds : ~Stranded(r)

\* C5 (as claimed): what ends the wait of bootstrap step k is the answer to
\* step k's own request or step k's timeout, never the answer to another
\* step's request.
C5_OwnResponseOnly ==
  \A k \in 1..NumSteps :
    aw[Boot(k)].outcome \in {"success", "failure"} => aw[Boot(k)].from = Boot(k)

\* The activations of UpdateValuesAndPublish of stock n that exist.
Activations(n) == {t \in 1..MaxTicks : act[<<n, t>>] \notin {"idle", "exit"}}

\* C8: per stock, at most one activation of UpdateValuesAndPublish exists,
\* an activation past its go statements has issued its one publish (none
\* before them), and the publish of tick t+1 is issued only after the
\* handleResponse of tick t has signalled its outcome.
C8_TicksSequential ==
  \A n \in Stocks :
    /\ Cardinality(Activations(n)) <= 1
    /\ \A t \in 1..MaxTicks :
         /\ act[<<n, t>>] \in {"sleep", "waitdone", "sendcycle", "exit"}
              => Issued(<<n, t>>)
         /\ act[<<n, t>>] = "idle" => ~Issued(<<n, t>>)
    /\ \A t \in 1..(MaxTicks - 1) :
         (Issued(<<n, t + 1>>) \/ act[<<n, t + 1>>] # "idle")
           => Signalled(<<n, t>>) /\ act[<<n, t>>] = "exit"

\* Some stock has issued the publish of its last tick and, its sleep over,
\* waits for the outcome.
C8_Witness ==
  \E n \in Stocks : Issued(<<n, MaxTicks>>) /\ act[<<n, MaxTicks>>] = "waitdone"

\* C9 (as claimed): the inter-tick sleep begins only after the
\* handleResponse of that tick's publish has returned its outcome.
C9_SleepAfterOutcome ==
  \A r \in TickIds : act[r] = "sleep" => Signalled(r)

\* What the code does instead of C9: the sleep begins right after the
\* publish and its handleResponse are started and runs while the outcome is
\* still
\* outstanding: handleResponse has not signalled while the tick sleeps; its
\* signal is taken only after the sleep has ended, and the tick reports on
\* cycle only after that.
C9_SleepThenOutcome ==
  \A r \in TickIds :
    /\ act[r] = "sleep" => Issued(r) /\ ~Signalled(r) /\ sent[r] = 0
    /\ act[r] = "waitdone" => ~Signalled(r)
    /\ act[r] \in {"sendcycle", "exit"} => Signalled(r) /\ sent[r] = 1

\* A tick is asleep while its handleResponse, already resolved by a timeout,
\* waits to signal.
C9_Witness ==
  \E r \in TickIds :
    act[r] = "sleep" /\ aw[r].st = "resolved" /\ aw[r].outcome = "timeout"

\* main has left GrantPermissions with all seven requests issued.
AtRunStocks == mainpc \in {"RunStocks", "blocked"} /\ Len(reqLog) = NumSteps

\* C6: a failure or a timeout at a bootstrap step does not abort the
\* sequence: whatever the outcomes of the steps, all seven requests are
\* issued and control reaches RunStocks.
C6_BootstrapNeverAborts == <>AtRunStocks

\* RunStocks is reached after seven steps none of which had a success.
C6_Witness == mainpc = "RunStocks" /\ Len(reqLog) = NumSteps /\ unacked

\* The callers of handleResponse: main, and the ticker of each stock.
Callers == {"main"} \cup Stocks

\* The requests a caller issues.
RequestsOf(c) ==
  IF c = "main" THEN BootIds ELSE {r \in TickIds : r[1] = c}

\* The caller has a request out whose handleResponse has not signalled.
Outstanding(c) ==
  \E r \in RequestsOf(c) : aw[r].st \in {"await", "resolved"}

\* C7 (as claimed): also when the messaging client never answers, the
\* handleResponse of a request resolves and signals completion, so that the
\* caller blocked on the request is released: a caller with a request out
\* eventually has none out.
C7_CallerReleased ==
  \A c \in Callers : Outstanding(c) ~> ~Outstanding(c)

\* C10 (as claimed): whatever the outcomes of the ticks so far, the next
\* tick of every stock is eventually started.
C10_NextTickStarts ==
  \A n \in Stocks : \A t \in 1..(MaxTicks - 1) :
    (act[<<n, t>>] = "start") ~> (act[<<n, t + 1>>] = "start")

\* C12 (as claimed): for a stock with 0 <= MinTrade <= MaxTrade the sleep
\* draw yields a d with MinTrade <= d < MaxTrade and never fails: a tick that
\* has issued its publish has drawn its sleep and gone on.
C12_SleepDrawSucceeds ==
  \A n \in DOMAIN stocks :
    (0 <= stocks[n].MinTrade /\ stocks[n].MinTrade <= stocks[n].MaxTrade) =>
      /\ \A d \in Randn(stocks[n].MinTrade, stocks[n].MaxTrade) :
           stocks[n].MinTrade <= d /\ d < stocks[n].MaxTrade
      /\ \A t \in 1..MaxTicks :
           Issued(<<n, t>>) => act[<<n, t>>] \notin {"start", "seeded"}

\* The identity the ticker loops publish with (SetAuthenticationKey in
\* RunCycle).
PublisherAuth == AuthKey

\* The grant a request asks for: identity, resource, read, write, manage.
Grant(q) == <<q.auth, q.target, q.read, q.write, q.manage>>

GrantsRequested ==
  {Grant(reqLog[k]) : k \in {i \in 1..Len(reqLog) :
      reqLog[i].op \in {"GrantChannelGroup", "GrantSubscribe"}}}

GrantsDescribed ==
  { <<bootstrapAuth, CHANNEL_GROUP, FALSE, FALSE, TRUE>>,
    <<"", CHANNEL_GROUP, TRUE, FALSE, FALSE>>,
    <<"", CHAT_CHANNEL, TRUE, TRUE, FALSE>>,
    <<"", HISTORY_CHANNEL, TRUE, FALSE, FALSE>>,
    <<PublisherAuth, stockNames, FALSE, TRUE, FALSE>> }

\* C16: the grants requested are those described and, once the bootstrap
\* has issued all its requests, all of those; the public identity is never
\* granted write on the history channel nor manage on the group; the
\* identity the tickers publish with is not the management identity.
C16_RightsRequested ==
  /\ GrantsRequested \subseteq GrantsDescribed
  /\ Len(reqLog) = NumSteps => GrantsRequested = GrantsDescribed
  /\ \A k \in 1..Len(reqLog) :
       reqLog[k].auth = "" =>
         /\ ~(reqLog[k].target = HISTORY_CHANNEL /\ reqLog[k].write)
         /\ ~reqLog[k].manage
  /\ PublisherAuth # bootstrapAuth

\* All grants are out and a ticker publishes.
C16_Witness ==
  /\ Len(reqLog) = NumSteps
  /\ Cardinality(GrantsRequested) = 5
  /\ \E r \in TickIds : Issued(r)

\* C17: a publish is awaited on a channel pair of its own: the value that
\* ends the wait of a tick's handleResponse is the answer to that tick's
\* publish, never the late answer to another tick's.
C17_TickOwnResponseOnly ==
  \A r \in TickIds :
    aw[r].outcome \in {"success", "failure"} => aw[r].from = r

\* A publish is answered after its handleResponse timed out, and the
\* handleResponse of a second tick has received its own answer.
C17_Witness ==
  \E q \in TickIds : \E r \in TickIds :
    /\ Stranded(q)
    /\ aw[q].outcome = "timeout"
    /\ r[2] = 2
    /\ aw[r].st = "resolved"
    /\ aw[r].outcome = "success"
    /\ aw[r].from = r

\* The stocks whose loop RunStocks has started.
Launched == {StockList(stocks)[i] : i \in 1..idx}

\* Some goroutine of stock n's loop takes a step.
LoopStep(n) ==
  \/ cyc'[n] # cyc[n]
  \/ iter'[n] # iter[n]
  \/ \E t \in 1..MaxTicks : act'[<<n, t>>] # act[<<n, t>>]

\* The step leaves the global list and the other stocks' state alone.
OthersUntouched(n) ==
  /\ stocks' = stocks
  /\ \A b \in DOMAIN st \ {n} : st'[b] = st[b]

\* C13: a loop runs for exactly the stocks RunStocks has ranged over, all
\* of them once main sits at its <-done; every step of a stock's loop leaves
\* the global list and the state of every other stock as they were.
C13_Isolation ==
  /\ [](/\ \A n \in Stocks : cyc[n] # "none" <=> n \in Launched
        /\ mainpc = "blocked" => Launched = DOMAIN stocks)
  /\ [][\A n \in DOMAIN st : LoopStep(n) => OthersUntouched(n)]_vars

\* Both loops have ticked and their prices differ.
C13_Witness ==
  /\ mainpc = "blocked"
  /\ \A n \in Stocks : iter[n] >= 1
  /\ st["A"].CurrentPrice # st["B"].CurrentPrice

\* C14 (as claimed): between the reseeding by one stock's tick and the
\* draws of that tick no other stock's tick reseeds or draws: no two ticks
\* of different stocks are between their rand.Seed and their draws at once.
C14_SeedToDrawsUndisturbed ==
  \A r \in TickIds : \A q \in TickIds :
    r[1] # q[1] => ~(act[r] = "seeded" /\ act[q] = "seeded")

\* C15: RunStocks never returns: once main is in RunStocks it stays there,
\* whatever the list of stocks and whatever the messaging client does.
C15_RunStocksNeverReturns ==
  [][(mainpc \in {"RunStocks", "blocked"}) =>
       (mainpc' \in {"RunStocks", "blocked"})]_vars

\* main sits at the <-done of RunStocks with an empty list of stocks.
C15_Witness == mainpc = "blocked" /\ DOMAIN stocks = {}

\* C19: main never gets to ServeHttp, the statement after RunStocks().
C19_ServeHttpNeverInvoked == mainpc # "ServeHttp"

\* main sits in RunStocks while a loop has run all its ticks.
C19_Witness ==
  /\ mainpc = "blocked"
  /\ \E n \in Stocks : iter[n] = MaxTicks /\ cyc[n] = "spawn"

\* The changes one tick can apply for volatility v.
Jitter(v) == (-(v \div 2))..(v - 1 - (v \div 2))

\* The price the tick after a tick with message m starts from, as claimed.
StartAfter(n, m) ==
  IF Abs(m.perc) > stocks[n].MaxDelta THEN stocks[n].InitialPrice ELSE m.price

\* The price the next tick of stock n starts from.
NextStart(n) ==
  IF st[n].CurrentPrice = 0 THEN st[n].InitialPrice ELSE st[n].CurrentPrice

\* C11: the message of a tick carries the price the tick computed, with
\* its delta and percentage, also when that percentage is beyond MaxDelta;
\* the next tick then starts from InitialPrice, and from the published
\* price otherwise.
C11_MeanReversion ==
  \A n \in DOMAIN stocks : \A t \in 1..iter[n] :
    LET m == msg[<<n, t>>]
    IN /\ m.delta = m.price - stocks[n].InitialPrice
       /\ m.perc \in Percentage(stocks[n].InitialPrice, m.price)
       /\ t = iter[n] => NextStart(n) = StartAfter(n, m)
       /\ t < iter[n] =>
            msg[<<n, t + 1>>].price - StartAfter(n, m)
              \in Jitter(stocks[n].Volatility)

\* The first tick went beyond MaxDelta with a price other than
\* InitialPrice, and the second tick has been computed.
C11_Witness ==
  \E n \in DOMAIN stocks :
    /\ iter[n] = 2
    /\ Abs(msg[<<n, 1>>].perc) > stocks[n].MaxDelta
    /\ msg[<<n, 1>>].price # stocks[n].InitialPrice
    /\ msg[<<n, 2>>].price # msg[<<n, 1>>].price

\* The prices within the band after tick t of stock n (t = 0: before the
\* first tick): InitialPrice, and the price tick t computed when the
\* rounded percentage it computed for it is at most MaxDelta in absolute
\* value.
InBand(n, t) ==
  {stocks[n].InitialPrice}
    \cup {msg[<<n, u>>].price : u \in
            {u \in {t} \cap (1..MaxTicks) :
               /\ msg[<<n, u>>].perc \in
                    Percentage(stocks[n].InitialPrice, msg[<<n, u>>].price)
               /\ Abs(msg[<<n, u>>].perc) <= stocks[n].MaxDelta}}

\* C18: between ticks, after the first, the stored price is within the
\* band; so every published price is one jitter step away from a price
\* within the band.
C18_PriceWithinBand ==
  \A n \in DOMAIN stocks :
    /\ iter[n] >= 1 => st[n].CurrentPrice \in InBand(n, iter[n])
    /\ \A t \in 1..iter[n] :
         \E p \in InBand(n, t - 1) :
           msg[<<n, t>>].price - p \in Jitter(stocks[n].Volatility)

\* After two ticks the stored price is within the band and is not
\* InitialPrice.
C18_Witness ==
  \E n \in DOMAIN stocks :
    /\ iter[n] = 2
    /\ st[n].CurrentPrice # stocks[n].InitialPrice
    /\ st[n].CurrentPrice = msg[<<n, 2>>].price
    /\ msg[<<n, 2>>].price # msg[<<n, 1>>].price

\* C20: for Volatility v > 0 the change a tick applies is an integer j
\* with -(v div 2) <= j <= v - 1 - (v div 2); the first tick applies it to
\* InitialPrice, a later one to InitialPrice or to the price published
\* before.
C20_JitterRange ==
  \A n \in DOMAIN stocks :
    stocks[n].Volatility > 0 =>
      \A t \in 1..iter[n] :
        \E base \in IF t = 1 THEN {stocks[n].InitialPrice}
                    ELSE {stocks[n].InitialPrice, msg[<<n, t - 1>>].price} :
          LET j == msg[<<n, t>>].price - base
          IN /\ -(stocks[n].Volatility \div 2) <= j
             /\ j <= stocks[n].Volatility - 1 - (stocks[n].Volatility \div 2)

\* A first tick with an odd volatility has applied the lowest change.
C20_Witness ==
  \E n \in DOMAIN stocks :
    /\ stocks[n].Volatility \in {3, 5}
    /\ iter[n] = 1
    /\ msg[<<n, 1>>].price =
         stocks[n].InitialPrice - (stocks[n].Volatility \div 2)

====
